---- MODULE Spec2Model ----
(* Model of onnxruntime/core/providers/cuda/cuda_kernel.h:                  *)
(* the CudaKernel::Compute wrapper (device synchronization and promotion of *)
(* the device's last error) and the CudaAsyncBuffer staging buffer with the *)
(* per-stream deferred release of pinned host memory.                       *)
EXTENDS Integers, Sequences, FiniteSets, TLC

----------------------------------------------------------------------------
(* Bounds of the model *)

\* kernel invocations (Compute calls) over a run
MaxInv == 3
\* pinned host blocks the allocator can have handed out at a time
MaxBlocks == 2
\* largest element count of a staging buffer
MaxCount == 2

----------------------------------------------------------------------------
(* Values *)

cudaSuccess == 0

\* device error codes other than cudaSuccess
ErrCodes == {700, 719}

cudaGetErrorName(e) ==
  CASE e = 700 -> "cudaErrorIllegalAddress"
    [] e = 719 -> "cudaErrorLaunchFailure"
    [] OTHER   -> "unrecognized error code"

cudaGetErrorString(e) ==
  CASE e = 700 -> "an illegal memory access was encountered"
    [] e = 719 -> "unspecified launch failure"
    [] OTHER   -> "unrecognized error code"

\* onnxruntime::common::Status as (code, message parts)
StatusOK == [code |-> "OK", msg |-> <<>>]

\* failures a kernel's ComputeInternal can return
DomainFailures ==
  { [code |-> "INVALID_ARGUMENT", msg |-> <<"shape mismatch">>],
    [code |-> "FAIL", msg |-> <<"kernel failed">>] }

IsOK(s) == s.code = "OK"

\* (mutant) the promoted failure names no device error
MakeCudaErrorStatus_Generic(err) ==
  [code |-> "FAIL", msg |-> <<"CUDA error ">>]

\* ORT_MAKE_STATUS(ONNXRUNTIME, FAIL, "CUDA error ", name, ":", string)
MakeCudaErrorStatus(err) ==
  [code |-> "FAIL",
   msg  |-> <<"CUDA error ", cudaGetErrorName(err), ":", cudaGetErrorString(err)>>]

\* two host threads call CudaKernel::Compute concurrently
Threads == {1, 2}

\* cudaStream_t handles; 0 is the null (default) stream
CudaStreams == {0, 1, 2}

\* onnxruntime::Stream objects a caller can pass; NullStream is nullptr
NullStream == 0
GpuStreams == {1, 2}
CpuStream == 3
OrtStreams == GpuStreams \cup {CpuStream}

\* stream->device.Type()
DeviceType(stream) == IF stream \in GpuStreams THEN "GPU" ELSE "CPU"

\* stream->handle: a stream of another device holds no cudaStream_t
Handle(stream) == IF stream \in GpuStreams THEN stream ELSE 0

\* element values, and the sequences of n of them; an element that was never
\* written holds the indeterminate value
Values == {7, 8}
Indeterminate == 0
Counts == 0 .. MaxCount
SeqsOver(V, n) == [1 .. n -> V]
SeqsOf(n) == SeqsOver(Values, n)

Blocks == 1 .. MaxBlocks

NoError == [code |-> cudaSuccess, inv |-> 0]
NoPoll  == [performed |-> FALSE, code |-> cudaSuccess, inv |-> 0]
NoStatus == [code |-> "NONE", msg |-> <<>>]

----------------------------------------------------------------------------
VARIABLES
  pc,         \* pc[t]: position of thread t inside Compute
  inv,        \* inv[t]: id of the invocation thread t is running (0: none)
  res,        \* res[t]: the Status ComputeInternal returned
  polled,     \* polled[t]: what cudaGetLastError returned to t, if called
  ret,        \* ret[t]: the Status Compute returned
  syncRes,    \* syncRes[t]: what cudaDeviceSynchronize returned to t (-1: not called)
  calls,      \* calls[t]: how often this invocation called each step
  nextInv,    \* next fresh invocation id
  queue,      \* queue[s]: device commands enqueued on stream s, not yet run
  lastError,  \* the device's last-error state, with the invocation that caused it
  buf,        \* the CudaAsyncBuffer: cpu_pinned_copy_, gpu_copy_, count_
  hostState,  \* hostState[b]: who holds pinned host block b
  hostMem,    \* hostMem[b]: the elements of pinned host block b
  gpuMem,     \* the elements of the device block the buffer holds
  deferred,   \* deferred[s]: the deferred-release queue of stream s
  enq,        \* enq[b]: how often block b was put in a deferred-release queue
  op          \* the last staging-buffer or handle operation and its outcome

bufferVars == <<buf, hostState, hostMem, gpuMem, deferred, enq, op>>

vars == <<pc, inv, res, polled, ret, syncRes, calls, nextInv, queue, lastError,
          buf, hostState, hostMem, gpuMem, deferred, enq, op>>

kernelVars == <<pc, inv, res, polled, ret, syncRes, calls, nextInv>>

NotCalled == -1
NoCalls == [internal |-> 0, sync |-> 0, poll |-> 0]

\* no CudaAsyncBuffer object
\* cpu, gpu and count are the members cpu_pinned_copy_, gpu_copy_ and count_
\* (0: nullptr); the other fields remember how the buffer was built (kind,
\* arg), the block it staged last (block) and whether and where a copy of
\* that block was issued (copied, copyStream).
NoArg == [n |-> 0, value |-> 0, vec |-> <<>>]
NoBuffer == [exists |-> FALSE, cpu |-> 0, gpu |-> 0, count |-> 0,
             kind |-> "none", arg |-> NoArg, block |-> 0,
             copied |-> FALSE, copyStream |-> 0]
\* name and outcome of the operation, the Status it returned, the pointer the
\* allocator returned (ptr), the host block the buffer held when it was
\* called (block), what cudaMemcpyAsync returned (err), the stream that was
\* passed (stream), how often the call asked for a device block and issued a
\* copy (allocs, copies), the library handle it returned (handle); tick flips
\* with every operation
NoOp == [name |-> "none", outcome |-> "none", status |-> NoStatus, ptr |-> 0, block |-> 0,
         err |-> 0, stream |-> 0, allocs |-> 0, copies |-> 0, handle |-> 0, tick |-> 0]

\* a device block nothing was copied to
NoData == [valid |-> FALSE, data |-> <<>>]

\* cudaMemcpyAsync(dst, src, n * sizeof(T), cudaMemcpyHostToDevice, stream):
\* src is the host block, dst is 1 while the destination is the device block
\* the buffer holds and 0 once the buffer has dropped that block
CopyCmd(b, n) == [kind |-> "copy", inv |-> 0, fault |-> cudaSuccess, src |-> b, dst |-> 1, n |-> n]

\* the buffer drops its device block: pending copies into it write to a block
\* the buffer no longer holds
Dropped(q) ==
  [s \in DOMAIN q |-> [i \in DOMAIN q[s] |->
     IF q[s][i].kind = "copy" THEN [q[s][i] EXCEPT !.dst = 0] ELSE q[s][i]]]

KernelCmd(i, f) == [kind |-> "kernel", inv |-> i, fault |-> f, src |-> 0, dst |-> 0, n |-> 0]

Init ==
  /\ pc = [t \in Threads |-> "idle"]
  /\ inv = [t \in Threads |-> 0]
  /\ res = [t \in Threads |-> NoStatus]
  /\ polled = [t \in Threads |-> NoPoll]
  /\ ret = [t \in Threads |-> NoStatus]
  /\ syncRes = [t \in Threads |-> NotCalled]
  /\ calls = [t \in Threads |-> NoCalls]
  /\ nextInv = 1
  /\ queue = [s \in CudaStreams |-> <<>>]
  /\ lastError = NoError
  /\ buf = NoBuffer
  /\ hostState = [b \in Blocks |-> "unallocated"]
  /\ hostMem = [b \in Blocks |-> <<>>]
  /\ gpuMem = NoData
  /\ deferred = [s \in GpuStreams |-> <<>>]
  /\ enq = [b \in Blocks |-> 0]
  /\ op = NoOp

----------------------------------------------------------------------------
(* The device *)

\* The device runs the oldest command of stream s, asynchronously to the host.
\* A faulting command leaves its error code in the last-error state.
\* The elements of a host block are followed while the buffer owns the block
\* or a pending copy moves them to the device block the buffer holds.
Tracked(hm, hs, bf, q) ==
  [b \in Blocks |->
     IF \/ hs[b] = "owned"
        \/ /\ bf.exists
           /\ \E s \in CudaStreams : \E i \in DOMAIN q[s] :
                q[s][i].kind = "copy" /\ q[s][i].src = b /\ q[s][i].dst = 1
       THEN hm[b] ELSE <<>>]

\* enq counts the hand-offs of a block while it is allocated
Counted(e, hs) == [b \in Blocks |-> IF hs[b] = "unallocated" THEN 0 ELSE e[b]]

\* A copy command moves n elements from its host block to its device block;
\* a host block that was freed holds arbitrary elements by then. The
\* elements of a device block are followed while the buffer holds the block.
HostFreed(b) == hostState[b] \notin {"deferred", "leaked"}

DeviceStep(s) ==
  /\ op.outcome # "crash"
  /\ queue[s] # <<>>
  /\ LET c == Head(queue[s]) IN
       /\ queue' = [queue EXCEPT ![s] = Tail(@)]
       /\ lastError' = IF c.fault # cudaSuccess
                         THEN [code |-> c.fault, inv |-> c.inv]
                         ELSE lastError
       /\ IF c.kind = "copy" /\ c.dst = 1
            THEN \E read \in (IF HostFreed(c.src) THEN SeqsOf(c.n)
                                ELSE {SubSeq(hostMem[c.src], 1, c.n)}) :
                   gpuMem' = [valid |-> TRUE, data |-> read]
            ELSE UNCHANGED gpuMem
       /\ hostMem' = Tracked(hostMem, hostState, buf, queue')
  /\ UNCHANGED kernelVars
  /\ UNCHANGED <<buf, hostState, deferred, enq, op>>

\* (mutant) the synchronization does not wait for the device
DeviceIdle_NoWait == TRUE

\* cudaDeviceSynchronize returns once no stream has a pending command
DeviceIdle == \A s \in CudaStreams : queue[s] = <<>>

----------------------------------------------------------------------------
(* CudaKernel::Compute *)

\* line 28: auto s = ComputeInternal(ctx). The kernel returns a Status r and
\* may have launched one device command on stream s, which faults with f
\* when the device runs it (f = cudaSuccess: it runs cleanly).
ComputeInternal(t, r, s, launch, f) ==
  /\ op.outcome # "crash"
  /\ pc[t] = "idle"
  /\ nextInv <= MaxInv
  /\ inv' = [inv EXCEPT ![t] = nextInv]
  /\ nextInv' = nextInv + 1
  /\ res' = [res EXCEPT ![t] = r]
  /\ queue' = IF launch THEN [queue EXCEPT ![s] = Append(@, KernelCmd(nextInv, f))]
                        ELSE queue
  /\ calls' = [calls EXCEPT ![t].internal = @ + 1]
  /\ pc' = [pc EXCEPT ![t] = "sync"]
  /\ UNCHANGED <<polled, ret, syncRes, lastError>>
  /\ UNCHANGED bufferVars

\* (mutant) a failed synchronization is ignored
SyncNext_IgnoreFailure(syncResult) == "check"

\* (mutant) a failed synchronization is tried again
SyncNext_Retry(syncResult) == IF cudaSuccess # syncResult THEN "sync" ELSE "check"

\* lines 30-31: if (cudaSuccess != cudaDeviceSynchronize()) ORT_THROW(...)
SyncNext(syncResult) == IF cudaSuccess # syncResult THEN "thrown" ELSE "check"

Synchronize(t, syncResult) ==
  /\ op.outcome # "crash"
  /\ pc[t] = "sync"
  /\ DeviceIdle
  /\ syncRes' = [syncRes EXCEPT ![t] = syncResult]
  /\ calls' = [calls EXCEPT ![t].sync = @ + 1]
  /\ pc' = [pc EXCEPT ![t] = SyncNext(syncResult)]
  /\ UNCHANGED <<inv, res, polled, ret, nextInv, queue, lastError>>
  /\ UNCHANGED bufferVars

\* (mutant) the last error is polled whatever ComputeInternal returned
PollsLastError_Always(s) == TRUE

\* line 32: the last error is polled only if ComputeInternal returned OK
PollsLastError(s) == IsOK(s)

\* (mutant) a pending device error is not promoted
PromoteLastError_Never(s, err) == s

\* lines 33-36 and 38: the Status returned once the last error err was polled
PromoteLastError(s, err) ==
  IF err # cudaSuccess THEN MakeCudaErrorStatus(err) ELSE s

\* (mutant) polling the last error leaves it pending
LastErrorAfterPoll_Kept(le) == le

\* line 33: cudaGetLastError resets the last-error state to cudaSuccess
LastErrorAfterPoll(le) == NoError

\* lines 32-38. cudaGetLastError returns the last error and resets it.
CheckAndReturn(t) ==
  /\ op.outcome # "crash"
  /\ pc[t] = "check"
  /\ IF PollsLastError(res[t])
       THEN /\ polled' = [polled EXCEPT ![t] =
                            [performed |-> TRUE, code |-> lastError.code, inv |-> lastError.inv]]
            /\ calls' = [calls EXCEPT ![t].poll = @ + 1]
            /\ lastError' = LastErrorAfterPoll(lastError)
            /\ ret' = [ret EXCEPT ![t] = PromoteLastError(res[t], lastError.code)]
       ELSE /\ ret' = [ret EXCEPT ![t] = res[t]]
            /\ UNCHANGED <<polled, calls, lastError>>
  /\ pc' = [pc EXCEPT ![t] = "done"]
  /\ UNCHANGED <<inv, res, syncRes, nextInv, queue>>
  /\ UNCHANGED bufferVars

\* the caller takes the result (or the exception) and the thread is free again
Finish(t) ==
  /\ op.outcome # "crash"
  /\ pc[t] \in {"done", "thrown"}
  /\ pc' = [pc EXCEPT ![t] = "idle"]
  /\ inv' = [inv EXCEPT ![t] = 0]
  /\ res' = [res EXCEPT ![t] = NoStatus]
  /\ polled' = [polled EXCEPT ![t] = NoPoll]
  /\ ret' = [ret EXCEPT ![t] = NoStatus]
  /\ syncRes' = [syncRes EXCEPT ![t] = NotCalled]
  /\ calls' = [calls EXCEPT ![t] = NoCalls]
  /\ UNCHANGED <<nextInv, queue, lastError>>
  /\ UNCHANGED bufferVars

----------------------------------------------------------------------------
(* CudaKernel::CudaAsyncBuffer *)

NextOp == [NoOp EXCEPT !.tick = 1 - op.tick]

\* the pinned allocator hands out a block nothing holds
FreeBlocks == {b \in Blocks : hostState[b] = "unallocated"}
FreshBlock == CHOOSE b \in FreeBlocks : \A c \in FreeBlocks : b <= c

\* line 132: GetScratchBuffer hands out a device block (1: the block the
\* buffer holds from then on)
GetScratchBuffer == 1

\* lines 44-49: nullptr when the provider has no pinned allocator, else what
\* IAllocator::MakeUniquePtr returns: the fresh block, or nullptr when the
\* allocator has no memory
AllocateBufferOnCPUPinned(hasAllocator, gotMemory, fresh) ==
  IF ~hasAllocator THEN 0
  ELSE IF gotMemory THEN fresh ELSE 0

\* (mutant) the result of the allocation is not checked
AllocFailed_Unchecked(p) == FALSE

\* line 125: cpu_pinned_copy_ == nullptr
AllocFailed(p) == p = 0

\* lines 107-109: the count constructor leaves the elements uninitialised
Uninitialised(n) == [i \in 1 .. n |-> Indeterminate]

\* lines 113-116: broadcast-fill of count elements
FillContents(value, n) == [i \in 1 .. n |-> value]

\* the elements of a block built by a constructor of this kind
Staged(kind, n, value, vec) ==
  CASE kind = "count" -> Uninitialised(n)
    [] kind = "fill"  -> FillContents(value, n)
    [] kind = "span"  -> vec

\* unique_ptr assignment and destruction free the block held before
FreeHeld(hs, b) == IF b # 0 THEN [hs EXCEPT ![b] = "unallocated"] ELSE hs


\* line 105: CudaAsyncBuffer(op_kernel)
ConstructEmpty ==
  /\ op.outcome # "crash"
  /\ ~buf.exists
  /\ buf' = [NoBuffer EXCEPT !.exists = TRUE, !.kind = "kernel"]
  /\ op' = [NextOp EXCEPT !.name = "kernel", !.outcome = "ok"]
  /\ UNCHANGED <<hostState, hostMem, gpuMem, deferred, enq>>
  /\ UNCHANGED <<kernelVars, queue, lastError>>

\* lines 123-128: AllocCpuPtr(n) on buffer b0, the allocation returning p.
\* The assignment of line 124 frees the block held before; count_ is written
\* only behind the check of line 125.
AllocCpuPtrResult(b0, n, p) ==
  IF AllocFailed(p)
    THEN [threw |-> TRUE,  buf |-> [b0 EXCEPT !.cpu = p, !.block = p, !.copied = FALSE]]
    ELSE [threw |-> FALSE, buf |-> [b0 EXCEPT !.cpu = p, !.count = n, !.block = p,
                                              !.copied = FALSE]]

\* the host blocks after AllocCpuPtr: the one held before is freed, the new
\* one (if any) is owned by the buffer and holds elems
HostAfterAlloc(held, p, elems) ==
  LET hs == FreeHeld(hostState, held)
      hs2 == IF p # 0 THEN [hs EXCEPT ![p] = "owned"] ELSE hs
      hm == IF p # 0 THEN [hostMem EXCEPT ![p] = elems] ELSE hostMem IN
    [state |-> hs2, mem |-> hm, enq |-> Counted(enq, hs2)]

\* lines 107-121: the constructors that stage a host block, through
\* AllocCpuPtr. A failed allocation throws out of the constructor: no object
\* is built.
Construct(kind, n, value, vec, hasAllocator, gotMemory) ==
  /\ op.outcome # "crash"
  /\ ~buf.exists
  /\ gotMemory => FreeBlocks # {}
  /\ LET p == AllocateBufferOnCPUPinned(hasAllocator, gotMemory,
                                        IF gotMemory THEN FreshBlock ELSE 0)
         r == AllocCpuPtrResult([NoBuffer EXCEPT !.exists = TRUE, !.kind = kind,
                                   !.arg = [n |-> n, value |-> value, vec |-> vec]], n, p)
         h == HostAfterAlloc(0, p, Staged(kind, n, value, vec)) IN
       /\ buf' = IF r.threw THEN NoBuffer ELSE r.buf
       /\ op' = [NextOp EXCEPT !.name = kind, !.ptr = p,
                             !.outcome = IF r.threw THEN "throw" ELSE "ok"]
       /\ hostState' = h.state
       /\ hostMem' = Tracked(h.mem, h.state, buf', queue)
       /\ enq' = h.enq
  /\ UNCHANGED <<gpuMem, deferred>>
  /\ UNCHANGED <<kernelVars, queue, lastError>>

\* lines 123-128, called on a buffer that exists
AllocCpuPtr(n, hasAllocator, gotMemory) ==
  /\ op.outcome # "crash"
  /\ buf.exists
  /\ gotMemory => FreeBlocks # {}
  /\ LET p == AllocateBufferOnCPUPinned(hasAllocator, gotMemory,
                                        IF gotMemory THEN FreshBlock ELSE 0)
         r == AllocCpuPtrResult(buf, n, p)
         h == HostAfterAlloc(buf.cpu, p, Uninitialised(n)) IN
       /\ buf' = IF r.threw THEN r.buf
                 ELSE [r.buf EXCEPT !.kind = "count", !.arg = [NoArg EXCEPT !.n = n]]
       /\ op' = [NextOp EXCEPT !.name = "AllocCpuPtr", !.ptr = p,
                             !.outcome = IF r.threw THEN "throw" ELSE "ok"]
       /\ hostState' = h.state
       /\ hostMem' = Tracked(h.mem, h.state, buf', queue)
       /\ enq' = h.enq
  /\ UNCHANGED <<gpuMem, deferred>>
  /\ UNCHANGED <<kernelVars, queue, lastError>>

\* the implicit destructor: both unique_ptrs free what they still hold
Destroy ==
  /\ op.outcome # "crash"
  /\ buf.exists
  /\ buf' = NoBuffer
  /\ hostState' = FreeHeld(hostState, buf.cpu)
  /\ queue' = Dropped(queue)
  /\ hostMem' = Tracked(hostMem, hostState', buf', queue')
  /\ enq' = Counted(enq, hostState')
  /\ gpuMem' = NoData
  /\ op' = [NextOp EXCEPT !.name = "destroy", !.outcome = "ok"]
  /\ UNCHANGED deferred
  /\ UNCHANGED <<kernelVars, lastError>>

\* (mutant) the copy is issued on the default stream
CopyStream_Default(stream) == 0

\* line 133: the cudaStream_t the copy is issued on
CopyStream(stream) == IF stream # NullStream THEN Handle(stream) ELSE 0

\* (mutant) one element too few is copied
CopyElems_Short(n) == IF n > 0 THEN n - 1 ELSE 0

\* line 134: count_ * sizeof(T) bytes, that is count_ elements
CopyElems(n) == n

\* (mutant) the result of cudaMemcpyAsync is ignored
CopyIssueFailed_Ignored(err) == FALSE

\* lines 134-135: CUDA_RETURN_IF_ERROR
CopyIssueFailed(err) == err # cudaSuccess

\* the Status CUDA_RETURN_IF_ERROR returns for error err
CudaCallStatus(err) ==
  [code |-> "FAIL", msg |-> <<"CUDA failure", cudaGetErrorName(err), cudaGetErrorString(err)>>]

\* (mutant) the buffer keeps the pointer it hands to the stream
HeldAfterHandOff_Kept(cpu) == cpu

\* line 136: cpu_pinned_copy_.release() leaves the buffer with nullptr
HeldAfterHandOff(cpu) == 0

\* (mutant) the device type of the stream is not enforced
AddDeferredOutcomes_Unchecked(stream) == {"ok"}

\* lines 65-69: how AddDeferredReleaseCPUPtr(p, stream) ends. Reading
\* ort_stream->device through a null stream is undefined: the call faults
\* (crash) or the check fails on what was read (throw).
AddDeferredOutcomes(stream) ==
  IF stream = NullStream THEN {"crash", "throw"}
  ELSE IF DeviceType(stream) = "GPU" THEN {"ok"} ELSE {"throw"}

\* (mutant) the copy is issued whether or not a host block is staged
HasStaged_Unchecked(cpu) == TRUE

\* line 131: if (cpu_pinned_copy_)
HasStaged(cpu) == cpu # 0

\* lines 130-139: CopyToGpu(stream); err is what cudaMemcpyAsync returns
CopyToGpu(stream, err) ==
  /\ op.outcome # "crash"
  /\ buf.exists
  /\ IF HasStaged(buf.cpu)
       THEN /\ gpuMem' = NoData
            /\ IF CopyIssueFailed(err)
                 THEN /\ buf' = [buf EXCEPT !.gpu = GetScratchBuffer]
                      /\ queue' = Dropped(queue)
                      /\ op' = [NextOp EXCEPT !.name = "CopyToGpu",
                                             !.outcome = "error", !.status = CudaCallStatus(err),
                                             !.block = buf.cpu, !.err = err,
                                             !.stream = stream, !.allocs = 1, !.copies = 1]
                      /\ UNCHANGED <<hostState, deferred, enq>>
                 ELSE \E out \in AddDeferredOutcomes(stream) :
                      /\ queue' = [Dropped(queue) EXCEPT ![CopyStream(stream)] =
                                      Append(@, CopyCmd(buf.cpu, CopyElems(buf.count)))]
                      /\ buf' = [buf EXCEPT !.gpu = GetScratchBuffer, !.cpu = HeldAfterHandOff(buf.cpu),
                                            !.copied = (out = "ok"),
                                            !.copyStream = CopyStream(stream)]
                      /\ op' = [NextOp EXCEPT !.name = "CopyToGpu",
                                             !.outcome = out,
                                             !.status = IF out = "ok" THEN StatusOK ELSE NoStatus,
                                             !.block = buf.cpu, !.err = err,
                                             !.stream = stream, !.allocs = 1, !.copies = 1]
                      /\ IF out = "ok"
                           THEN /\ deferred' = [deferred EXCEPT ![stream] = Append(@, buf.cpu)]
                                /\ enq' = [enq EXCEPT ![buf.cpu] = @ + 1]
                                /\ hostState' = [hostState EXCEPT ![buf.cpu] = "deferred"]
                           ELSE /\ hostState' = [hostState EXCEPT ![buf.cpu] = "leaked"]
                                /\ UNCHANGED <<deferred, enq>>
       ELSE /\ op' = [NextOp EXCEPT !.name = "CopyToGpu",
                                   !.outcome = "ok", !.status = StatusOK,
                                   !.stream = stream]
            /\ UNCHANGED <<buf, queue, hostState, deferred, enq, gpuMem>>
  /\ hostMem' = Tracked(hostMem, hostState', buf', queue')
  /\ UNCHANGED <<kernelVars, lastError>>

\* CudaStream releases the deferred host blocks of stream s once the stream
\* has completed the work enqueued on it
Drain(s) ==
  /\ op.outcome # "crash"
  /\ deferred[s] # <<>>
  /\ queue[Handle(s)] = <<>>
  /\ hostState' = [b \in Blocks |->
                     IF \E i \in DOMAIN deferred[s] : deferred[s][i] = b
                       THEN "unallocated" ELSE hostState[b]]
  /\ hostMem' = Tracked(hostMem, hostState', buf, queue)
  /\ enq' = Counted(enq, hostState')
  /\ deferred' = [deferred EXCEPT ![s] = <<>>]
  /\ UNCHANGED <<buf, gpuMem, op>>
  /\ UNCHANGED <<kernelVars, queue, lastError>>

\* CudaStream::cudnn_handle_ and CudaStream::cublas_handle_: every stream of
\* the device caches handles of its own
cudnn_handle_(stream) == 10 + stream
cublas_handle_(stream) == 20 + stream

\* (mutant) the device type of the stream is not enforced
GetHandleOutcomes_Unchecked(stream) == {"ok"}

\* lines 83 and 92: ORT_ENFORCE(stream->device.Type() == OrtDevice::GPU).
\* Reading the device of a null stream is undefined: the call faults (crash)
\* or the check fails on what was read (throw).
GetHandleOutcomes(stream) ==
  IF stream = NullStream THEN {"crash", "throw"}
  ELSE IF DeviceType(stream) = "GPU" THEN {"ok"} ELSE {"throw"}

\* lines 82-85: GetCudnnHandle(stream)
GetCudnnHandle(stream) ==
  /\ op.outcome # "crash"
  /\ \E out \in GetHandleOutcomes(stream) :
       op' = [NextOp EXCEPT !.name = "GetCudnnHandle", !.stream = stream, !.outcome = out,
                            !.handle = IF out = "ok" THEN cudnn_handle_(stream) ELSE 0]
  /\ UNCHANGED <<buf, hostState, hostMem, gpuMem, deferred, enq>>
  /\ UNCHANGED <<kernelVars, queue, lastError>>

\* lines 91-94: GetCublasHandle(stream)
GetCublasHandle(stream) ==
  /\ op.outcome # "crash"
  /\ \E out \in GetHandleOutcomes(stream) :
       op' = [NextOp EXCEPT !.name = "GetCublasHandle", !.stream = stream, !.outcome = out,
                            !.handle = IF out = "ok" THEN cublas_handle_(stream) ELSE 0]
  /\ UNCHANGED <<buf, hostState, hostMem, gpuMem, deferred, enq>>
  /\ UNCHANGED <<kernelVars, queue, lastError>>

\* the accessors of lines 141-155
CpuPtr == buf.cpu
GpuPtr == buf.gpu
count == buf.count
\* lines 145-147: gsl::span<T>(CpuPtr(), count_)
CpuSpan == [data |-> CpuPtr, size |-> count]

----------------------------------------------------------------------------
Next ==
  \/ \E t \in Threads, r \in {StatusOK} \cup DomainFailures, s \in {1, 2},
        launch \in BOOLEAN, f \in {cudaSuccess} \cup ErrCodes :
       ComputeInternal(t, r, s, launch, f)
  \/ \E t \in Threads, e \in {cudaSuccess} \cup ErrCodes : Synchronize(t, e)
  \/ \E t \in Threads : CheckAndReturn(t)
  \/ \E t \in Threads : Finish(t)
  \/ \E s \in CudaStreams : DeviceStep(s)

Spec == Init /\ [][Next]_vars

\* the staging buffer, its streams and the device
\* what the pinned allocator does: the provider has none, it has no memory
\* left, or it hands out a block
AllocCases == {<<FALSE, FALSE>>, <<TRUE, FALSE>>, <<TRUE, TRUE>>}

BufferStep(V, counts, recounts, streams, errs) ==
  \/ ConstructEmpty
  \/ \E kind \in {"count", "fill", "span"}, n \in counts, a \in AllocCases :
       \E value \in (IF kind = "fill" THEN V ELSE {0}),
          vec \in (IF kind = "span" THEN SeqsOver(V, n) ELSE {<<>>}) :
         Construct(kind, n, value, vec, a[1], a[2])
  \/ \E n \in recounts, a \in AllocCases : AllocCpuPtr(n, a[1], a[2])
  \/ \E stream \in streams, err \in {cudaSuccess} \cup errs :
       CopyToGpu(stream, err)
  \/ Destroy
  \/ \E s \in GpuStreams : Drain(s)
  \/ \E s \in CudaStreams : DeviceStep(s)

\* every stream a caller can pass and every error of the copy, over buffers
\* of one element
BufferNext == BufferStep({7}, {1}, {MaxCount}, {NullStream} \cup OrtStreams, ErrCodes)

\* every buffer content, copied on one device stream
ContentNext == BufferStep(Values, Counts, {1}, {1}, {700})

ContentSpec == Init /\ [][ContentNext]_vars

\* one thread runs kernels that ask for the library handles of a stream
HandleNext ==
  \/ \E stream \in {NullStream} \cup OrtStreams : GetCudnnHandle(stream)
  \/ \E stream \in {NullStream} \cup OrtStreams : GetCublasHandle(stream)
  \/ \E r \in {StatusOK} \cup DomainFailures, launch \in BOOLEAN,
        f \in {cudaSuccess} \cup ErrCodes :
       ComputeInternal(1, r, 1, launch, f)
  \/ \E e \in {cudaSuccess} \cup ErrCodes : Synchronize(1, e)
  \/ CheckAndReturn(1)
  \/ Finish(1)
  \/ \E s \in CudaStreams : DeviceStep(s)

HandleSpec == Init /\ [][HandleNext]_vars

\* one thread runs kernels and stages a buffer of one element on a stream of
\* the device or of another device
CallNext ==
  \/ \E r \in {StatusOK, [code |-> "FAIL", msg |-> <<"kernel failed">>]},
        launch \in BOOLEAN, f \in {cudaSuccess, 700} :
       ComputeInternal(1, r, 1, launch, f)
  \/ \E e \in {cudaSuccess, 700} : Synchronize(1, e)
  \/ CheckAndReturn(1)
  \/ Finish(1)
  \/ \E a \in AllocCases : Construct("count", 1, 0, <<>>, a[1], a[2])
  \/ \E stream \in {1, CpuStream}, err \in {cudaSuccess, 700} : CopyToGpu(stream, err)
  \/ \E s \in GpuStreams : Drain(s)
  \/ \E s \in CudaStreams : DeviceStep(s)

CallSpec == Init /\ [][CallNext]_vars

BufferSpec == Init /\ [][BufferNext]_vars

----------------------------------------------------------------------------
(* Properties of CudaKernel::Compute *)

Returned(t) == pc[t] = "done"
Threw(t) == pc[t] = "thrown"
FaultPolled(t) == polled[t].performed /\ polled[t].code # cudaSuccess

\* status st carries the name and the message of device error e, and names
\* no other device error
CarriesDeviceError(st, e) ==
  /\ \E i \in DOMAIN st.msg : st.msg[i] = cudaGetErrorName(e)
  /\ \E i \in DOMAIN st.msg : st.msg[i] = cudaGetErrorString(e)
  /\ \A e2 \in ErrCodes :
       (\E i \in DOMAIN st.msg : st.msg[i] = cudaGetErrorName(e2)) => e2 = e

\* C1: when the synchronization succeeded, Compute returns a failure iff
\* ComputeInternal returned a failure or the poll of the last error made after
\* the synchronization reported a fault; otherwise it returns success.
C1_FailureIff ==
  \A t \in Threads :
    (Returned(t) /\ syncRes[t] = cudaSuccess) =>
      /\ (~IsOK(ret[t])) <=> (~IsOK(res[t]) \/ FaultPolled(t))
      /\ IsOK(ret[t]) => ret[t] = StatusOK

C1_Witness ==
  \E t \in Threads :
    Returned(t) /\ syncRes[t] = cudaSuccess /\ IsOK(res[t]) /\ FaultPolled(t) /\ ~IsOK(ret[t])

\* C2 (as claimed): if ComputeInternal returned a failure R, the call ends by
\* returning exactly R, whatever the device did after ComputeInternal.
C2_Original ==
  \A t \in Threads :
    ((Returned(t) \/ Threw(t)) /\ ~IsOK(res[t])) => (Returned(t) /\ ret[t] = res[t])

\* C2 (amended): if ComputeInternal returned a failure R and the device
\* synchronization succeeded, Compute returns exactly R, whether or not a
\* device fault is pending; if the synchronization failed, Compute throws and
\* returns nothing.
C2_DomainFailureVerbatim ==
  \A t \in Threads :
    ((Returned(t) \/ Threw(t)) /\ ~IsOK(res[t])) =>
      /\ syncRes[t] = cudaSuccess => (Returned(t) /\ ret[t] = res[t])
      /\ syncRes[t] # cudaSuccess => (Threw(t) /\ ret[t] = NoStatus)

C2_Witness ==
  \E t \in Threads :
    /\ Returned(t) /\ ~IsOK(res[t]) /\ ret[t] = res[t]
    /\ lastError.code # cudaSuccess /\ lastError.inv = inv[t]

C4_FaultReportedByItsInvocation ==
  \A t \in Threads :
    (Returned(t) /\ FaultPolled(t)) => polled[t].inv = inv[t]

\* C5: every Compute call synchronizes the device after ComputeInternal,
\* whatever ComputeInternal returned; if the synchronization fails, Compute
\* throws, returns no Status and does not poll the last error.
C5_SyncAlwaysAndFatal ==
  \A t \in Threads :
    /\ (Returned(t) \/ Threw(t)) => (calls[t].internal = 1 /\ calls[t].sync = 1)
    /\ (syncRes[t] \notin {NotCalled, cudaSuccess}) =>
         (Threw(t) /\ ret[t] = NoStatus /\ calls[t].poll = 0 /\ ~polled[t].performed)
    /\ Threw(t) => syncRes[t] \in ErrCodes

C5_Witness ==
  \E t, u \in Threads :
    /\ Threw(t) /\ IsOK(res[t]) /\ lastError.code # cudaSuccess
    /\ Threw(u) /\ ~IsOK(res[u])

----------------------------------------------------------------------------
(* Properties of CudaAsyncBuffer *)

\* how often block b stands in the deferred-release queues of all streams
Occurrences(b) ==
  LET n[s \in GpuStreams] == Cardinality({i \in DOMAIN deferred[s] : deferred[s][i] = b})
  IN n[1] + n[2]

IssueCopyOk == op.name = "CopyToGpu" /\ op.outcome = "ok"

\* C6: a staged host block is handed to a deferred-release queue at most
\* once; after an IssueCopy that succeeded on it, it was handed over exactly
\* once, and it never stands twice in one queue or in two queues.
C6_EnqueuedOnce ==
  /\ \A b \in Blocks :
       /\ enq[b] <= 1
       /\ Occurrences(b) <= 1
       /\ Occurrences(b) = 1 <=> hostState[b] = "deferred"
       /\ hostState[b] = "deferred" => enq[b] = 1
       /\ hostState[b] = "owned" => enq[b] = 0
  /\ (IssueCopyOk /\ op.block # 0) =>
       \/ hostState[op.block] = "deferred" /\ enq[op.block] = 1
       \/ hostState[op.block] = "unallocated"
  /\ (buf.exists /\ buf.copied) =>
       \/ hostState[buf.block] = "deferred" /\ enq[buf.block] = 1 /\ buf.cpu = 0
       \/ hostState[buf.block] = "unallocated"

\* a second IssueCopy, on the other stream, after one that handed the block over
C6_Witness ==
  /\ IssueCopyOk /\ op.block = 0
  /\ buf.copied /\ hostState[buf.block] = "deferred" /\ enq[buf.block] = 1
  /\ deferred[1] = <<buf.block>> /\ deferred[2] = <<>>

PendingCopyOf(b, s) ==
  \E i \in DOMAIN queue[s] : queue[s][i].kind = "copy" /\ queue[s][i].src = b

\* C7: the host block handed to a stream is released only after the stream
\* has run the copy that reads it: the block joins the deferred-release queue
\* of a stream when the copy is already enqueued on that stream, and no
\* pending copy reads a block that is freed or back with the buffer.
C7_ReleaseAfterCopy ==
  /\ [](\A b \in Blocks : \A s \in CudaStreams :
          PendingCopyOf(b, s) =>
            /\ hostState[b] \in {"deferred", "leaked"}
            /\ buf.cpu # b
            /\ \A d \in GpuStreams :
                 (\E i \in DOMAIN deferred[d] : deferred[d][i] = b) => Handle(d) = s)
  /\ [][\A d \in GpuStreams :
          Len(deferred'[d]) > Len(deferred[d]) =>
            \E i \in DOMAIN queue'[Handle(d)] :
               /\ queue'[Handle(d)][i].kind = "copy"
               /\ queue'[Handle(d)][i].src = deferred'[d][Len(deferred'[d])]]_vars

\* a block was handed over on stream 2 and released after the copy had run
C7_Witness ==
  /\ IssueCopyOk /\ op.block # 0
  /\ buf.copied /\ buf.copyStream = 2
  /\ hostState[op.block] = "unallocated"
  /\ gpuMem.valid

\* C8: after IssueCopy succeeded on a buffer built from a sequence of N
\* elements (or a fill value and N) and the stream has run the copy, the
\* device block holds exactly these N elements and count() is N.
C8_DeviceHoldsStaged ==
  (/\ buf.exists /\ buf.copied
   /\ buf.kind \in {"fill", "span"}
   /\ queue[buf.copyStream] = <<>>) =>
     /\ gpuMem.valid
     /\ Len(gpuMem.data) = buf.arg.n
     /\ count = buf.arg.n
     /\ buf.kind = "span" => gpuMem.data = buf.arg.vec
     /\ buf.kind = "fill" => \A i \in 1 .. buf.arg.n : gpuMem.data[i] = buf.arg.value

C8_Witness ==
  /\ buf.exists /\ buf.copied /\ buf.kind = "span" /\ queue[buf.copyStream] = <<>>
  /\ buf.arg.vec = <<7, 8>> /\ gpuMem.data = <<7, 8>> /\ count = 2

Ctors == {"count", "fill", "span"}

\* C9: if the pinned allocator is absent or returns no memory, the
\* constructors from a count, a fill value or a sequence throw and build no
\* buffer; a buffer they build owns a non-null host block of count elements;
\* and AllocCpuPtr records the count only when the allocation succeeded.
C9_AllocFailureFailsConstruction ==
  /\ []((op.name \in Ctors /\ op.ptr = 0) => (op.outcome = "throw" /\ ~buf.exists))
  /\ []((op.name \in Ctors /\ op.outcome = "ok") =>
          /\ buf.exists /\ CpuPtr # 0 /\ CpuPtr = op.ptr
          /\ hostState[CpuPtr] = "owned"
          /\ Len(hostMem[CpuPtr]) = count)
  /\ [][(op' # op /\ op'.name = "AllocCpuPtr" /\ op'.ptr = 0) =>
          (op'.outcome = "throw" /\ buf'.count = buf.count /\ buf'.cpu = 0)]_vars

C9_Witness ==
  /\ op.name = "span" /\ op.ptr = 0 /\ op.outcome = "throw" /\ ~buf.exists
  /\ \E b \in Blocks : hostState[b] = "leaked"

\* C10: if cudaMemcpyAsync reports an error, IssueCopy returns that error,
\* no deferred-release queue changes, and the buffer still owns the same host
\* block with the same elements and the same count.
C10_FailedIssueKeepsBlock ==
  [][(op' # op /\ op'.name = "CopyToGpu" /\ op'.err # cudaSuccess) =>
       /\ op'.outcome = "error"
       /\ ~IsOK(op'.status)
       /\ CarriesDeviceError(op'.status, op'.err)
       /\ deferred' = deferred
       /\ enq' = enq
       /\ hostState' = hostState
       /\ buf.cpu # 0 /\ buf'.cpu = buf.cpu
       /\ hostState'[buf.cpu] = "owned"
       /\ hostMem'[buf.cpu] = hostMem[buf.cpu]
       /\ buf'.count = buf.count]_vars

C10_Witness ==
  /\ op.name = "CopyToGpu" /\ op.outcome = "error" /\ op.err = 719
  /\ buf.cpu # 0 /\ hostState[buf.cpu] = "owned" /\ hostMem[buf.cpu] = <<7>>
  /\ deferred[1] # <<>>

\* C11: IssueCopy on a buffer built by the kernel-only constructor, holding
\* no host block, returns success and changes nothing: no device block, no
\* copy on any stream, no deferred release, the same pointers and count,
\* whatever stream is passed.
C11_UnstagedIssueIsNoOp ==
  [][(op' # op /\ op'.name = "CopyToGpu" /\ buf.kind = "kernel" /\ buf.cpu = 0) =>
       /\ op'.outcome = "ok" /\ op'.status = StatusOK
       /\ buf' = buf
       /\ buf'.gpu = 0 /\ buf'.count = 0
       /\ queue' = queue
       /\ deferred' = deferred
       /\ enq' = enq
       /\ hostState' = hostState
       /\ gpuMem' = gpuMem]_vars

\* the no-op on the stream of another device, while a block that an earlier
\* buffer handed over is still waiting for its release
C11_Witness ==
  /\ op.name = "CopyToGpu" /\ op.outcome = "ok" /\ op.stream = CpuStream
  /\ op.block = 0
  /\ buf.exists /\ buf.kind = "kernel" /\ CpuPtr = 0 /\ GpuPtr = 0 /\ count = 0
  /\ deferred[2] # <<>>

\* the step is a CopyToGpu call that reached line 136 and so called
\* AddDeferredReleaseCPUPtr(op'.block, op'.stream)
CalledAddDeferred ==
  /\ op' # op /\ op'.name = "CopyToGpu"
  /\ op'.block # 0 /\ op'.outcome # "error"

\* C12: AddDeferredReleaseCPUPtr(p, stream) succeeds only for a stream of the
\* GPU device, and then appends exactly one entry for p to the
\* deferred-release queue of that stream and leaves the other queues alone;
\* for any other stream it fails and no deferred-release queue changes.
C12_EnqueueOnlyOnDeviceStream ==
  [][CalledAddDeferred =>
       /\ op'.outcome = "ok" <=> op'.stream \in GpuStreams
       /\ op'.stream \in GpuStreams =>
            /\ deferred'[op'.stream] = Append(deferred[op'.stream], op'.block)
            /\ \A d \in GpuStreams \ {op'.stream} : deferred'[d] = deferred[d]
            /\ enq'[op'.block] = enq[op'.block] + 1
       /\ op'.stream \notin GpuStreams =>
            /\ op'.outcome \in {"throw", "crash"}
            /\ deferred' = deferred
            /\ enq' = enq]_vars

\* the call failed on the stream of another device while the queue of a
\* device stream held an entry, which stayed
C12_Witness ==
  /\ op.name = "CopyToGpu" /\ op.block # 0 /\ op.stream = CpuStream
  /\ op.outcome = "throw"
  /\ deferred[1] # <<>> /\ deferred[2] = <<>>
  /\ deferred[1][1] # op.block

\* IssueCopy succeeded on the block the buffer staged and handed it over
Transferred == buf.exists /\ buf.copied /\ buf.block # 0

\* C15: once IssueCopy has handed the host block over, neither CpuPtr() nor
\* CpuSpan() gives out the address of that block: the buffer holds a null
\* host pointer, whatever count() is.
C15_HostViewAfterTransfer ==
  Transferred =>
    /\ CpuPtr # buf.block /\ CpuPtr = 0
    /\ CpuSpan.data # buf.block /\ CpuSpan.data = 0
    /\ \A b \in Blocks : hostState[b] = "deferred" => CpuPtr # b

\* the block is with the stream, its copy has not run yet, and count() is
\* still 1
C15_Witness ==
  /\ Transferred /\ CpuPtr = 0 /\ count = 1
  /\ hostState[buf.block] = "deferred"
  /\ PendingCopyOf(buf.block, buf.copyStream)

\* the lifecycle state of the buffer, read from its members: Empty (0) while
\* it holds no host block and no device block, Staged (1) while it holds a
\* host block, Transferring (2) while CopyToGpu runs, Released (3) once it
\* holds a device block and no host block
LifecycleRank ==
  IF CpuPtr # 0 THEN 1
  ELSE IF GpuPtr = 0 THEN 0
  ELSE 3

\* C16: no operation moves a buffer back to an earlier lifecycle state.
C16_LifecycleOnlyAdvances ==
  [][(buf.exists /\ buf'.exists) => LifecycleRank' >= LifecycleRank]_vars

\* C17: GpuPtr() is non-null exactly when an IssueCopy on a staged buffer
\* has succeeded: it is non-null after such a call, and it turns from null to
\* non-null only in such a call, not in one whose copy issuance failed.
\* (Stated for the calls on a stream of the device.)
C17_DevicePointerIffIssued ==
  /\ [](Transferred => GpuPtr # 0)
  /\ [][(/\ buf'.exists /\ buf'.gpu # 0 /\ (~buf.exists \/ buf.gpu = 0)
         /\ op'.stream \in GpuStreams) =>
          (op'.name = "CopyToGpu" /\ op'.outcome = "ok" /\ op'.block # 0)]_vars

\* the owners of host block b: buffer bf if it holds b, and the
\* deferred-release queues d that hold an entry for b
Owners(bf, d, b) ==
  (IF bf.exists /\ bf.cpu = b THEN 1 ELSE 0)
  + Cardinality({x \in GpuStreams \X Blocks :
                   x[2] = b /\ \E i \in DOMAIN d[x[1]] : d[x[1]][i] = b})

\* C19: an allocated host block that was not released has exactly one owner,
\* the buffer or one deferred-release queue, after every outcome of IssueCopy
\* on a staged buffer, also with a stream that is not a stream of the device.
\* (Stated for the calls that pass a stream object.)
C19_ExactlyOneOwner ==
  /\ [](\A b \in Blocks :
          hostState[b] \in {"owned", "deferred"} => Owners(buf, deferred, b) = 1)
  /\ [][(/\ op' # op /\ op'.name = "CopyToGpu"
         /\ op'.block # 0 /\ op'.stream \in OrtStreams) =>
          Owners(buf', deferred', op'.block) = 1]_vars

----------------------------------------------------------------------------
(* Properties of the per-stream library handles *)

HandleOps == {"GetCudnnHandle", "GetCublasHandle"}

\* the handle of the library that call name asks for, cached on stream
CachedHandle(name, stream) ==
  IF name = "GetCudnnHandle" THEN cudnn_handle_(stream) ELSE cublas_handle_(stream)

\* C13: asking for the cuDNN or cuBLAS handle of a stream that is not a stream
\* of the GPU device fails and returns no handle; for a stream of the device
\* the call returns the handle cached on that stream, which is the handle of
\* no other stream.
C13_HandleOfItsStream ==
  op.name \in HandleOps =>
    /\ op.stream \notin GpuStreams =>
         /\ op.outcome \in {"throw", "crash"}
         /\ op.handle = 0
    /\ op.stream \in GpuStreams =>
         /\ op.outcome = "ok"
         /\ op.handle = CachedHandle(op.name, op.stream)
         /\ \A other \in GpuStreams \ {op.stream} :
              op.handle \notin {cudnn_handle_(other), cublas_handle_(other)}

C13_Witness ==
  /\ op.name = "GetCublasHandle" /\ op.stream = CpuStream
  /\ op.outcome = "throw" /\ op.handle = 0
  /\ pc[1] = "sync"

----------------------------------------------------------------------------
(* Further properties of CudaKernel::Compute *)

\* the commands pending on the streams of the device
Pending == UNION {{queue[s][i] : i \in DOMAIN queue[s]} : s \in CudaStreams}

\* C14: when a thread passes the synchronization of Compute, no stream of
\* the device has a pending command; so when Compute has returned, every
\* command that is still pending on any stream was enqueued after the work of
\* this invocation, and the work of this invocation has completed.
C14_AllWorkCompletedAtReturn ==
  /\ [][\A t \in Threads :
          (pc[t] = "sync" /\ pc'[t] = "check") => \A s \in CudaStreams : queue[s] = <<>>]_vars
  /\ [](\A t \in Threads :
          Returned(t) => \A c \in Pending : c.inv > inv[t])

\* thread 1 has returned after it waited for the older command of thread 2,
\* which faulted, and thread 2 is still before its synchronization
C14_Witness ==
  /\ Returned(1) /\ pc[2] = "sync" /\ inv[2] < inv[1]
  /\ FaultPolled(1) /\ polled[1].inv = inv[2]

\* the commands pending on all streams
QueueTotal == Len(queue[0]) + Len(queue[1]) + Len(queue[2])

\* C18: a Compute call calls ComputeInternal once, synchronizes once and
\* polls the last error at most once, also when a step fails; a CopyToGpu
\* call asks for at most one device block and issues at most one copy, so it
\* adds at most one command to the streams.
C18_NoRetry ==
  /\ [](\A t \in Threads :
          /\ calls[t].internal <= 1 /\ calls[t].sync <= 1 /\ calls[t].poll <= 1
          /\ (Returned(t) \/ Threw(t)) => (calls[t].internal = 1 /\ calls[t].sync = 1)
          /\ Threw(t) => calls[t].poll = 0)
  /\ [](op.name = "CopyToGpu" =>
          /\ op.allocs <= 1 /\ op.copies <= 1
          /\ op.block = 0 => (op.allocs = 0 /\ op.copies = 0))
  /\ [][(op' # op /\ op'.name = "CopyToGpu") =>
          /\ QueueTotal' <= QueueTotal + op'.copies
          /\ op'.outcome = "error" => QueueTotal' = QueueTotal]_vars

\* the synchronization of a Compute call failed after the kernel's CopyToGpu
\* had failed to issue its copy: both ended without a second attempt
C18_Witness ==
  /\ Threw(1) /\ calls[1].sync = 1 /\ calls[1].internal = 1
  /\ op.name = "CopyToGpu" /\ op.outcome = "error" /\ op.copies = 1 /\ op.allocs = 1
  /\ QueueTotal = 0

\* a device fault is pending in the last-error state
FaultPending == lastError.code # cudaSuccess

\* C20: a device fault is reported by at most one Compute call: the poll
\* that reports it clears it, so it is pending no longer and no other call
\* holds it; a call whose ComputeInternal succeeded and that polled no fault
\* returns success; a call whose ComputeInternal failed does not poll and
\* leaves a pending fault pending.
C20_FaultConsumedByPromotion ==
  /\ [](\A t \in Threads :
          FaultPolled(t) => ~(FaultPending /\ lastError.inv = polled[t].inv))
  /\ [](\A t, u \in Threads :
          (t # u /\ FaultPolled(t) /\ FaultPolled(u)) => polled[t].inv # polled[u].inv)
  /\ [](\A t \in Threads :
          (Returned(t) /\ IsOK(res[t]) /\ ~FaultPolled(t)) => ret[t] = StatusOK)
  /\ [][\A t \in Threads :
          (pc[t] = "check" /\ pc'[t] = "done") =>
            IF IsOK(res[t])
              THEN /\ polled'[t].performed /\ polled'[t].code = lastError.code
                   /\ ~FaultPending'
              ELSE /\ ~polled'[t].performed
                   /\ lastError' = lastError]_vars

\* thread 1 reported a fault, which is pending no longer; thread 2, a later
\* invocation whose ComputeInternal succeeded, polled no fault and returned
\* success
C20_Witness ==
  /\ Returned(1) /\ FaultPolled(1) /\ ~FaultPending
  /\ Returned(2) /\ IsOK(res[2]) /\ polled[2].performed /\ ~FaultPolled(2)
  /\ ret[2] = StatusOK /\ inv[2] > polled[1].inv /\ inv[2] > inv[1]

====
